---- MODULE Spec2Model ----
\* Model of the JSON-RPC interception layer of src/main.py: the ASGI wrapper
\* json_rpc_asgi_app, the tool _search_movies_impl it dispatches to, the token
\* exchange get_auth0_token, and the fallback application fastmcp_asgi.
\*
\* Python str values are sequences of one-character strings, request and
\* response bodies are sequences of JSON tokens (the bytes, cut at lexeme
\* boundaries), and json.loads / json.dumps are a parser and a serializer over
\* those tokens.
EXTENDS Integers, Sequences, FiniteSets, TLC

\* ---------------------------------------------------------------------------
\* String literals of src/main.py, as character sequences
\* ---------------------------------------------------------------------------
\* "jsonrpc"
k_jsonrpc == <<"j","s","o","n","r","p","c">>
\* "method"
k_method == <<"m","e","t","h","o","d">>
\* "params"
k_params == <<"p","a","r","a","m","s">>
\* "name"
k_name == <<"n","a","m","e">>
\* "arguments"
k_arguments == <<"a","r","g","u","m","e","n","t","s">>
\* "id"
k_id == <<"i","d">>
\* "query"
k_query == <<"q","u","e","r","y">>
\* "result"
k_result == <<"r","e","s","u","l","t">>
\* "error"
k_error == <<"e","r","r","o","r">>
\* "code"
k_code == <<"c","o","d","e">>
\* "message"
k_message == <<"m","e","s","s","a","g","e">>
\* "title"
k_title == <<"t","i","t","l","e">>
\* "watched"
k_watched == <<"w","a","t","c","h","e","d">>
\* "access_token"
k_access_token == <<"a","c","c","e","s","s","_","t","o","k","e","n">>
\* "2.0"
s_2_0 == <<"2",".","0">>
\* "tools/call"
s_tools_call == <<"t","o","o","l","s","/","c","a","l","l">>
\* "search_movies"
s_search_movies == <<"s","e","a","r","c","h","_","m","o","v","i","e","s">>
\* "Unknown tool: "
s_Unknown_tool == <<"U","n","k","n","o","w","n"," ","t","o","o","l",":",
    " ">>
\* "None"
s_None == <<"N","o","n","e">>
\* "Could not authenticate with backend service."
s_auth_failed == <<"C","o","u","l","d"," ","n","o","t"," ","a","u","t","h",
    "e","n","t","i","c","a","t","e"," ","w","i","t","h"," ","b","a","c","k",
    "e","n","d"," ","s","e","r","v","i","c","e",".">>
\* "An internal error occurred while searching for movies."
s_internal_error == <<"A","n"," ","i","n","t","e","r","n","a","l"," ","e",
    "r","r","o","r"," ","o","c","c","u","r","r","e","d"," ","w","h","i","l",
    "e"," ","s","e","a","r","c","h","i","n","g"," ","f","o","r"," ","m","o",
    "v","i","e","s",".">>
\* "The movie '"
s_The_movie == <<"T","h","e"," ","m","o","v","i","e"," ","'">>
\* "' was not found in the wishlist."
s_not_found == <<"'"," ","w","a","s"," ","n","o","t"," ","f","o","u","n",
    "d"," ","i","n"," ","t","h","e"," ","w","i","s","h","l","i","s","t",
    ".">>
\* "' is on the list and "
s_on_the_list == <<"'"," ","i","s"," ","o","n"," ","t","h","e"," ","l","i",
    "s","t"," ","a","n","d"," ">>
\* "has been watched"
s_has_been_watched == <<"h","a","s"," ","b","e","e","n"," ","w","a","t","c",
    "h","e","d">>
\* "has NOT been watched"
s_has_NOT_been_watched == <<"h","a","s"," ","N","O","T"," ","b","e","e","n",
    " ","w","a","t","c","h","e","d">>
\* "' object has no attribute 'get'"
s_no_attribute_get == <<"'"," ","o","b","j","e","c","t"," ","h","a","s"," ",
    "n","o"," ","a","t","t","r","i","b","u","t","e"," ","'","g","e","t",
    "'">>

\* ---------------------------------------------------------------------------
\* Program constants
\* ---------------------------------------------------------------------------
\* HTTP status of every response the wrapper writes
HTTP_OK == 200
\* JSON-RPC "internal error" code of the error envelope
INTERNAL_ERROR_CODE == -32603
\* the header list of every response the wrapper writes
JSON_HEADERS == << <<"content-type", "application/json">> >>

\* ---------------------------------------------------------------------------
\* Python values.  A value is a record [t, v]: t is the Python type, v the
\* payload (characters of a str, decimal digits of an int, items of a list,
\* key/value items of a dict in insertion order).
\* ---------------------------------------------------------------------------
PyNone == [t |-> "none", v |-> <<>>]
PyStr(chars) == [t |-> "str", v |-> chars]
PyInt(digits) == [t |-> "int", v |-> digits]
PyBool(lexeme) == [t |-> "bool", v |-> lexeme]
PyList(items) == [t |-> "list", v |-> items]
PyDict(items) == [t |-> "dict", v |-> items]
EmptyDict == PyDict(<<>>)

IsScalar(x) == x.t \in {"none", "str", "int", "bool"}

\* Python ==, on the scalars the wrapper compares (values of different types
\* are unequal: "2.0" is not 2.0)
PyEq(a, b) == a.t = b.t /\ IsScalar(a) /\ a.v = b.v

\* type(x).__name__
TypeName(x) ==
    CASE x.t = "none" -> <<"N","o","n","e","T","y","p","e">>
      [] x.t = "bool" -> <<"b","o","o","l">>
      [] x.t = "str" -> <<"s","t","r">>
      [] x.t = "int" -> <<"i","n","t">>
      [] x.t = "list" -> <<"l","i","s","t">>
      [] x.t = "dict" -> <<"d","i","c","t">>

\* str(x), as an f-string renders a scalar
py_str(x) ==
    CASE x.t = "none" -> s_None
      [] x.t = "bool" -> IF x.v = <<"true">> THEN <<"T","r","u","e">>
                                            ELSE <<"F","a","l","s","e">>
      [] OTHER -> x.v

\* d[k] position: index of key k in the items of a dict, 0 when absent
KeyIndex(items, k) ==
    IF \E i \in 1..Len(items) : items[i].k = k
    THEN CHOOSE i \in 1..Len(items) : items[i].k = k
    ELSE 0

\* k in d
HasKey(d, k) == KeyIndex(d.v, k) # 0

\* d[k]
GetItem(d, k) == d.v[KeyIndex(d.v, k)].val

\* d.get(k, default)
DictGet(d, k, default) == IF HasKey(d, k) THEN GetItem(d, k) ELSE default

\* d[k] = val on the items of a dict: an existing key keeps its position and
\* takes the new value, a new key is appended
DictSet(items, k, val) ==
    IF KeyIndex(items, k) # 0
    THEN [items EXCEPT ![KeyIndex(items, k)] = [k |-> k, val |-> val]]
    ELSE Append(items, [k |-> k, val |-> val])

\* ---------------------------------------------------------------------------
\* JSON tokens: the lexemes of a body
\* ---------------------------------------------------------------------------
P(c) == [t |-> "punct", v |-> <<c>>]
S(chars) == [t |-> "str", v |-> chars]
N(digits) == [t |-> "int", v |-> digits]
L(word) == [t |-> "lit", v |-> <<word>>]
\* bytes that are UTF-8 text but start no JSON value
Junk == [t |-> "junk", v |-> <<"?">>]
\* a byte sequence that is not valid UTF-8
BadUtf8 == [t |-> "badutf8", v |-> <<"\\xff">>]

IsPunct(toks, i, c) == i <= Len(toks) /\ toks[i] = P(c)

ParseFail == [ok |-> FALSE, val |-> PyNone, next |-> 0]
ParseOk(val, next) == [ok |-> TRUE, val |-> val, next |-> next]

RECURSIVE ParseValue(_, _)
RECURSIVE ParseArrayRest(_, _, _, _)
RECURSIVE ParseObjectRest(_, _, _, _)

\* the items of a JSON array, from position i on (after "[" or after ",")
ParseArrayRest(toks, i, acc, first) ==
    IF first /\ IsPunct(toks, i, "]")
    THEN ParseOk(PyList(acc), i + 1)
    ELSE LET r == ParseValue(toks, i) IN
         IF ~r.ok THEN ParseFail
         ELSE IF IsPunct(toks, r.next, ",")
              THEN ParseArrayRest(toks, r.next + 1, Append(acc, r.val), FALSE)
              ELSE IF IsPunct(toks, r.next, "]")
                   THEN ParseOk(PyList(Append(acc, r.val)), r.next + 1)
                   ELSE ParseFail

\* the members of a JSON object, from position i on; a repeated key keeps the
\* last value
ParseObjectRest(toks, i, acc, first) ==
    IF first /\ IsPunct(toks, i, "}")
    THEN ParseOk(PyDict(acc), i + 1)
    ELSE IF i + 1 > Len(toks) \/ toks[i].t # "str" \/ ~IsPunct(toks, i + 1, ":")
         THEN ParseFail
         ELSE LET r == ParseValue(toks, i + 2) IN
              IF ~r.ok THEN ParseFail
              ELSE IF IsPunct(toks, r.next, ",")
                   THEN ParseObjectRest(toks, r.next + 1,
                                        DictSet(acc, toks[i].v, r.val), FALSE)
                   ELSE IF IsPunct(toks, r.next, "}")
                        THEN ParseOk(PyDict(DictSet(acc, toks[i].v, r.val)),
                                     r.next + 1)
                        ELSE ParseFail

\* one JSON value starting at position i
ParseValue(toks, i) ==
    IF i > Len(toks) THEN ParseFail
    ELSE CASE toks[i].t = "str" -> ParseOk(PyStr(toks[i].v), i + 1)
           [] toks[i].t = "int" -> ParseOk(PyInt(toks[i].v), i + 1)
           [] toks[i].t = "lit" ->
                ParseOk(IF toks[i].v = <<"null">> THEN PyNone
                                                  ELSE PyBool(toks[i].v), i + 1)
           [] toks[i] = P("[") -> ParseArrayRest(toks, i + 1, <<>>, TRUE)
           [] toks[i] = P("{") -> ParseObjectRest(toks, i + 1, <<>>, TRUE)
           [] OTHER -> ParseFail

\* json.loads(body) on bytes: decode the bytes as UTF-8 (UnicodeDecodeError),
\* then parse one value spanning the whole text (JSONDecodeError otherwise)
json_loads(toks) ==
    IF \E i \in 1..Len(toks) : toks[i].t = "badutf8"
    THEN [exc |-> "UnicodeDecodeError", val |-> PyNone]
    ELSE LET r == ParseValue(toks, 1) IN
         IF r.ok /\ r.next = Len(toks) + 1
         THEN [exc |-> "none", val |-> r.val]
         ELSE [exc |-> "JSONDecodeError", val |-> PyNone]

RECURSIVE json_dumps(_)
RECURSIVE DumpItems(_, _)
RECURSIVE DumpMembers(_, _)

DumpItems(items, i) ==
    IF i > Len(items) THEN <<>>
    ELSE (IF i > 1 THEN <<P(",")>> ELSE <<>>)
         \o json_dumps(items[i]) \o DumpItems(items, i + 1)

DumpMembers(items, i) ==
    IF i > Len(items) THEN <<>>
    ELSE (IF i > 1 THEN <<P(",")>> ELSE <<>>)
         \o <<S(items[i].k), P(":")>> \o json_dumps(items[i].val)
         \o DumpMembers(items, i + 1)

\* json.dumps(x).encode()
json_dumps(x) ==
    CASE x.t = "none" -> <<L("null")>>
      [] x.t = "bool" -> <<[t |-> "lit", v |-> x.v]>>
      [] x.t = "int" -> <<N(x.v)>>
      [] x.t = "str" -> <<S(x.v)>>
      [] x.t = "list" -> <<P("[")>> \o DumpItems(x.v, 1) \o <<P("]")>>
      [] x.t = "dict" -> <<P("{")>> \o DumpMembers(x.v, 1) \o <<P("}")>>

\* ---------------------------------------------------------------------------
\* str methods used by _search_movies_impl
\* ---------------------------------------------------------------------------
UPPER == <<"A","B","C","D","E","F","G","H","I","J","K","L","M",
           "N","O","P","Q","R","S","T","U","V","W","X","Y","Z">>
LOWER == <<"a","b","c","d","e","f","g","h","i","j","k","l","m",
           "n","o","p","q","r","s","t","u","v","w","x","y","z">>

LowerChar(c) ==
    IF \E i \in 1..Len(UPPER) : UPPER[i] = c
    THEN LOWER[CHOOSE i \in 1..Len(UPPER) : UPPER[i] = c]
    ELSE c

\* s.lower()
lower(s) == [i \in 1..Len(s) |-> LowerChar(s[i])]

\* sub in s
Contains(sub, s) ==
    \E i \in 0..(Len(s) - Len(sub)) : SubSeq(s, i + 1, i + Len(sub)) = sub

RECURSIVE Join(_, _)
\* sep.join(parts)
Join(sep, parts) ==
    IF Len(parts) = 0 THEN <<>>
    ELSE IF Len(parts) = 1 THEN parts[1]
         ELSE parts[1] \o sep \o Join(sep, Tail(parts))

\* JoinBytes keeping only the chunk received last
JoinBytes_last_chunk(parts) == IF Len(parts) = 0 THEN <<>> ELSE parts[Len(parts)]

RECURSIVE JoinBytes(_)
\* b"".join(body_parts)
JoinBytes(parts) ==
    IF Len(parts) = 0 THEN <<>> ELSE parts[1] \o JoinBytes(Tail(parts))

RECURSIVE NatDigits(_)
NatDigits(n) ==
    LET d == <<"0","1","2","3","4","5","6","7","8","9">>[(n % 10) + 1] IN
    IF n < 10 THEN <<d>> ELSE Append(NatDigits(n \div 10), d)

\* the decimal text of a Python int
IntDigits(n) == IF n < 0 THEN <<"-">> \o NatDigits(0 - n) ELSE NatDigits(n)

\* ---------------------------------------------------------------------------
\* Exceptions
\* ---------------------------------------------------------------------------
NoExc == [type |-> "none", msg |-> <<>>]
Exc(type, msg) == [type |-> type, msg |-> msg]
\* x.get(...) on a value that is not a dict
AttributeError(x) ==
    Exc("AttributeError", <<"'">> \o TypeName(x) \o s_no_attribute_get)
\* what a failing send raises: the transport's own error text
SendFailure == Exc("OSError", <<"c","l","o","s","e","d">>)

Item(k, val) == [k |-> k, val |-> val]

\* ---------------------------------------------------------------------------
\* get_auth0_token and _search_movies_impl, as functions of the replies of
\* the identity provider and of the movie API.  A reply is
\* [conn_ok, status, json]: the round trip worked or not, the HTTP status,
\* the decoded JSON body.
\* ---------------------------------------------------------------------------
\* response.raise_for_status() raises for 4xx and 5xx
RaisesForStatus(reply) == reply.status >= 400 /\ reply.status < 600

\* get_auth0_token(): the access token, or the exception that leaves it
get_auth0_token(reply) ==
    IF ~reply.conn_ok \/ RaisesForStatus(reply)
    THEN [exc |-> Exc("ToolError", s_auth_failed), val |-> PyNone]
    ELSE IF ~HasKey(reply.json, k_access_token)
         THEN [exc |-> Exc("KeyError", <<"'">> \o k_access_token \o <<"'">>),
               val |-> PyNone]
         ELSE [exc |-> NoExc, val |-> GetItem(reply.json, k_access_token)]

\* bool(x)
Truthy(x) ==
    CASE x.t = "none" -> FALSE
      [] x.t = "bool" -> x.v = <<"true">>
      [] x.t = "int" -> x.v # <<"0">>
      [] OTHER -> Len(x.v) > 0

\* the list comprehension raises: query.lower() or movie['title'].lower()
\* fails on some movie
FilterRaises(query, all_movies) ==
    /\ Len(all_movies.v) > 0
    /\ \/ query.t # "str"
       \/ \E i \in 1..Len(all_movies.v) :
             \/ all_movies.v[i].t # "dict"
             \/ ~HasKey(all_movies.v[i], k_title)
             \/ GetItem(all_movies.v[i], k_title).t # "str"

\* MovieMatches comparing the title as stored, without lower-casing it
MovieMatches_title_case(query, movie) ==
    Contains(lower(query.v), GetItem(movie, k_title).v)

MovieMatches(query, movie) ==
    Contains(lower(query.v), lower(GetItem(movie, k_title).v))

found_movies(query, all_movies) ==
    SelectSeq(all_movies.v, LAMBDA movie : MovieMatches(query, movie))

MovieSentence(movie) ==
    <<"'">> \o GetItem(movie, k_title).v \o s_on_the_list
        \o (IF Truthy(GetItem(movie, k_watched)) THEN s_has_been_watched
                                                  ELSE s_has_NOT_been_watched)
        \o <<".">>

\* lines 65-82 of _search_movies_impl: the returned text, or raised = TRUE
\* when an exception leaves the block
SearchText(query, all_movies) ==
    IF all_movies.t # "list" \/ FilterRaises(query, all_movies)
    THEN [raised |-> TRUE, val |-> <<>>]
    ELSE LET found == found_movies(query, all_movies) IN
         IF Len(found) = 0
         THEN [raised |-> FALSE,
               val |-> s_The_movie \o py_str(query) \o s_not_found]
         ELSE IF \E i \in 1..Len(found) : ~HasKey(found[i], k_watched)
              THEN [raised |-> TRUE, val |-> <<>>]
              ELSE [raised |-> FALSE,
                    val |-> Join(<<" ">>,
                                 [i \in 1..Len(found) |-> MovieSentence(found[i])])]

\* the part of _search_movies_impl after the token: GET, filter, format;
\* every exception becomes the internal-error ToolError
search_after_token(query, reply) ==
    IF ~reply.conn_ok \/ RaisesForStatus(reply)
       \/ SearchText(query, reply.json).raised
    THEN [exc |-> Exc("ToolError", s_internal_error), val |-> PyNone]
    ELSE [exc |-> NoExc, val |-> PyStr(SearchText(query, reply.json).val)]

\* what _search_movies_impl does with an exception of get_auth0_token:
\* a ToolError is re-raised, anything else becomes the internal-error ToolError
handler_reraise(e) ==
    IF e.type = "ToolError" THEN e ELSE Exc("ToolError", s_internal_error)

\* ---------------------------------------------------------------------------
\* JSON-RPC envelopes built by json_rpc_asgi_app
\* ---------------------------------------------------------------------------
SuccessResponse(request_id, result) ==
    PyDict(<<Item(k_jsonrpc, PyStr(s_2_0)), Item(k_id, request_id),
             Item(k_result, result)>>)

\* ErrorResponse with the id left out of the except block's envelope
ErrorResponse_null_id(request_id, e) ==
    PyDict(<<Item(k_jsonrpc, PyStr(s_2_0)), Item(k_id, PyNone),
             Item(k_error,
                  PyDict(<<Item(k_code, PyInt(IntDigits(INTERNAL_ERROR_CODE))),
                           Item(k_message, PyStr(e.msg))>>))>>)

ErrorResponse(request_id, e) ==
    PyDict(<<Item(k_jsonrpc, PyStr(s_2_0)), Item(k_id, request_id),
             Item(k_error,
                  PyDict(<<Item(k_code, PyInt(IntDigits(INTERNAL_ERROR_CODE))),
                           Item(k_message, PyStr(e.msg))>>))>>)

UnknownToolResult(tool_name) ==
    PyDict(<<Item(k_error, PyStr(s_Unknown_tool \o py_str(tool_name)))>>)

\* ASGI messages the wrapper sends
\* lines 141-145: the start message of the try block
ResponseStart ==
    [type |-> "http.response.start", status |-> HTTP_OK, headers |-> JSON_HEADERS]
\* ErrResponseStart with the tool failure reflected in the HTTP status
ErrResponseStart_500 ==
    [type |-> "http.response.start", status |-> 500, headers |-> JSON_HEADERS]
\* lines 162-166: the start message of the except block
ErrResponseStart ==
    [type |-> "http.response.start", status |-> HTTP_OK, headers |-> JSON_HEADERS]
ResponseBody(response_body) ==
    [type |-> "http.response.body", body |-> response_body]

\* ---------------------------------------------------------------------------
\* Inputs: requests, transport deliveries, collaborator replies
\* ---------------------------------------------------------------------------
\* the wrapper's receive calls are counted up to this many
MaxReceive == 3

Q(val) == PyDict(<<Item(k_query, val)>>)
ArgItems(val) == <<Item(k_arguments, val)>>
CallParams(name, arg_items) ==
    <<Item(k_params, PyDict(<<Item(k_name, name)>> \o arg_items))>>

\* the "id" member of a request: absent, null, integers, strings
IdChoices ==
    << <<>>,
       <<Item(k_id, PyNone)>>,
       <<Item(k_id, PyInt(<<"1">>))>>,
       <<Item(k_id, PyStr(<<"a">>))>> >>

\* the "params" member of a request
ParamsChoices ==
    << CallParams(PyStr(s_search_movies), ArgItems(Q(PyStr(<<"a">>)))),
       CallParams(PyStr(s_search_movies), ArgItems(Q(PyStr(<<"B">>)))),
       CallParams(PyStr(s_search_movies), ArgItems(Q(PyStr(<<>>)))),
       CallParams(PyStr(s_search_movies), ArgItems(Q(PyNone))),
       CallParams(PyStr(s_search_movies), ArgItems(EmptyDict)),
       CallParams(PyStr(s_search_movies), <<>>),
       CallParams(PyStr(s_search_movies), ArgItems(PyList(<<>>))),
       CallParams(PyStr(s_search_movies), ArgItems(PyNone)),
       CallParams(PyStr(<<"S","e","a","r","c","h","_","M","o","v","i","e","s">>),
                  ArgItems(Q(PyStr(<<"a">>)))),
       CallParams(PyStr(<<>>), <<>>),
       CallParams(PyNone, <<>>),
       <<Item(k_params, EmptyDict)>>,
       <<>>,
       <<Item(k_params, PyNone)>>,
       <<Item(k_params, PyList(<<>>))>> >>

\* the request the test client builds: jsonrpc, id, method, params
jsonrpc_request(id_items, params_items) ==
    PyDict(<<Item(k_jsonrpc, PyStr(s_2_0))>> \o id_items
           \o <<Item(k_method, PyStr(s_tools_call))>> \o params_items)

\* bodies of tools/call requests
ToolCallBodies ==
    { json_dumps(jsonrpc_request(IdChoices[i], ParamsChoices[j])) :
        i \in 1..Len(IdChoices), j \in 1..Len(ParamsChoices) }

\* JSON documents that are not a tools/call envelope
OtherJson ==
    << PyList(<<>>), PyStr(<<"x">>), PyInt(<<"1">>), PyNone,
       PyBool(<<"true">>), EmptyDict,
       PyDict(<<Item(k_jsonrpc, PyStr(<<"1",".","0">>)), Item(k_id, PyInt(<<"1">>)),
                Item(k_method, PyStr(s_tools_call))>>),
       PyDict(<<Item(k_jsonrpc, PyInt(<<"2">>)), Item(k_id, PyInt(<<"1">>)),
                Item(k_method, PyStr(s_tools_call))>>),
       PyDict(<<Item(k_jsonrpc, PyStr(s_2_0)), Item(k_id, PyInt(<<"1">>)),
                Item(k_method, PyStr(<<"t","o","o","l","s","/","l","i","s","t">>))>>),
       PyDict(<<Item(k_id, PyInt(<<"1">>)), Item(k_method, PyStr(s_tools_call))>>),
       PyDict(<<Item(k_jsonrpc, PyStr(s_2_0)), Item(k_id, PyInt(<<"1">>))>>) >>

OtherJsonBodies == { json_dumps(OtherJson[i]) : i \in 1..Len(OtherJson) }

\* a tools/call body that repeats the "id" key
DuplicateIdBody ==
    <<P("{"), S(k_jsonrpc), P(":"), S(s_2_0), P(","),
      S(k_id), P(":"), N(<<"1">>), P(","), S(k_id), P(":"), N(<<"2">>), P(","),
      S(k_method), P(":"), S(s_tools_call), P("}")>>

\* bodies that are not JSON text
NonJsonBodies ==
    { <<>>, <<Junk>>, <<P("{")>>, <<L("null"), Junk>>,
      <<P("{"), S(k_jsonrpc), P(":"), S(s_2_0), P(",")>>,
      <<BadUtf8>> }

Bodies == ToolCallBodies \cup OtherJsonBodies \cup NonJsonBodies \cup {DuplicateIdBody}

\* a few requests, for the specifications that follow a request over several
\* steps of the server process: a search, an unknown tool, a body that is not
\* JSON
FewBodies ==
    { json_dumps(jsonrpc_request(IdChoices[3], ParamsChoices[2])),
      json_dumps(jsonrpc_request(IdChoices[4], ParamsChoices[10])),
      <<Junk>> }

\* ASGI receive events
Chunk(b, more) == [type |-> "http.request", body |-> b, more_body |-> more]
ChunkNoBody(more) == [type |-> "http.request", more_body |-> more]
ChunkNoMore(b) == [type |-> "http.request", body |-> b]
Disconnect == [type |-> "http.disconnect"]

\* message.get("body", b"") and message.get("more_body", False)
MsgBody(message) == IF "body" \in DOMAIN message THEN message.body ELSE <<>>
MsgMore(message) == IF "more_body" \in DOMAIN message THEN message.more_body ELSE FALSE

\* the ways the transport can deliver a body: one event, two events cut at
\* any lexeme boundary, an event without "body" first, or a stream the client
\* aborts before its last chunk
Deliveries(b) ==
    { <<ChunkNoMore(b)>>, <<Chunk(b, FALSE)>>,
      <<ChunkNoBody(TRUE), Chunk(b, FALSE)>>,
      <<Chunk(b, TRUE)>> }
    \cup { <<Chunk(SubSeq(b, 1, k), TRUE), Chunk(SubSeq(b, k + 1, Len(b)), FALSE)>> :
             k \in {n \in {1, Len(b) \div 2} : n >= 1 /\ n < Len(b)} }

\* ASGI scopes
Scopes ==
    << [type |-> "http", method |-> "POST", path |-> "/"],
       [type |-> "http", method |-> "GET", path |-> "/"],
       [type |-> "http", method |-> "POST", path |-> "/mcp"],
       [type |-> "http", method |-> "DELETE", path |-> "/mcp"],
       [type |-> "websocket", path |-> "/"],
       [type |-> "lifespan"] >>

\* replies of the identity provider to the token exchange
AccessToken == PyStr(<<"t","k">>)
AuthReplies ==
    << [conn_ok |-> TRUE, status |-> 200,
        json |-> PyDict(<<Item(k_access_token, AccessToken)>>)],
       [conn_ok |-> FALSE, status |-> 0, json |-> EmptyDict],
       [conn_ok |-> TRUE, status |-> 401, json |-> EmptyDict],
       [conn_ok |-> TRUE, status |-> 200, json |-> EmptyDict],
       [conn_ok |-> TRUE, status |-> 200,
        json |-> PyDict(<<Item(k_access_token, PyStr(<<"t","2">>))>>)] >>

Movie(title, watched) ==
    PyDict(<<Item(k_title, PyStr(title)), Item(k_watched, PyBool(<<watched>>))>>)

\* replies of the movie API to the collection GET
MoviesReplies ==
    << [conn_ok |-> TRUE, status |-> 200, json |-> PyList(<<>>)],
       [conn_ok |-> TRUE, status |-> 200,
        json |-> PyList(<<Movie(<<"A","b">>, "false")>>)],
       [conn_ok |-> TRUE, status |-> 200,
        json |-> PyList(<<Movie(<<"A","b">>, "true"), Movie(<<"b">>, "false")>>)],
       [conn_ok |-> TRUE, status |-> 200,
        json |-> PyList(<<Movie(<<"b">>, "true"), Movie(<<"A","b">>, "true")>>)],
       [conn_ok |-> TRUE, status |-> 200,
        json |-> PyList(<<PyDict(<<Item(k_watched, PyBool(<<"true">>))>>)>>)],
       [conn_ok |-> TRUE, status |-> 200,
        json |-> PyList(<<PyDict(<<Item(k_title, PyStr(<<"b">>))>>)>>)],
       [conn_ok |-> TRUE, status |-> 500, json |-> EmptyDict],
       [conn_ok |-> FALSE, status |-> 0, json |-> EmptyDict] >>

\* ---------------------------------------------------------------------------
\* State of one call of json_rpc_asgi_app(scope, receive, send)
\* ---------------------------------------------------------------------------
VARIABLES
    scope,          \* the ASGI scope of the request
    wire,           \* the events the transport delivers for the request
    inbox,          \* the events receive has not returned yet
    pc,             \* position in json_rpc_asgi_app
    body_parts,     \* chunks collected by the receive loop
    body,           \* b"".join(body_parts)
    jsonrpc_req,    \* json.loads(body)
    tool_name, arguments, request_id,
    query,          \* the argument _search_movies_impl is called with
    access_token,   \* the token of this call
    result,         \* the value the response carries as "result"
    exc,            \* the exception being handled or propagated
    response_body,  \* json.dumps(response).encode()
    sent,           \* messages send accepted from the wrapper
    send_calls,     \* messages the wrapper passed to send
    receive_calls,  \* calls of receive made by the wrapper
    handler_calls,  \* calls of _search_movies_impl
    handler_state,  \* "idle", "running", "returned" or "raised"
    handler_exc,    \* the exception _search_movies_impl raised
    token_fetches,  \* POSTs to the token endpoint
    upstream_gets,  \* GETs to the movie API
    auth_reply, movies_reply,   \* 0, or the index of the reply received
    fallback_calls, \* calls of fastmcp_asgi
    fallback_inbox, \* what receive still held when fastmcp_asgi was called
    fallback_seen,  \* http.request events fastmcp_asgi got from receive
    get_authorization,  \* the Authorization header of the collection GET
    auth0_token_cache,  \* the module-level token cache
    request_no,     \* which call of json_rpc_asgi_app in this process this is
    first_run,      \* replies and outcome of the first call, once it is over
    peer_pc         \* position of a second request in flight in the process

vars == <<scope, wire, inbox, pc, body_parts, body, jsonrpc_req, tool_name,
          arguments, request_id, query, access_token, result, exc,
          response_body, sent, send_calls, receive_calls, handler_calls,
          handler_state, handler_exc, token_fetches, upstream_gets, auth_reply,
          movies_reply, fallback_calls, fallback_inbox, fallback_seen,
          get_authorization, auth0_token_cache, request_no, first_run, peer_pc>>

\* line 21: the cache as the module creates it
InitialCache == [token |-> PyNone, expires_at |-> 0]

\* no first call on record yet
NoRun == [recorded |-> FALSE, auth_reply |-> 0, movies_reply |-> 0,
          clean |-> TRUE, pc |-> "called", sent |-> <<>>]

Init ==
    /\ \E i \in 1..Len(Scopes) :
          /\ scope = Scopes[i]
          /\ IF Scopes[i].type = "http"
             THEN \E b \in Bodies : wire \in Deliveries(b)
             ELSE wire = <<>>
    /\ inbox = wire
    /\ pc = "called"
    /\ body_parts = <<>>
    /\ body = <<>>
    /\ jsonrpc_req = PyNone
    /\ tool_name = PyNone
    /\ arguments = PyNone
    /\ request_id = PyNone
    /\ query = PyNone
    /\ access_token = PyNone
    /\ result = PyNone
    /\ exc = NoExc
    /\ response_body = <<>>
    /\ sent = <<>>
    /\ send_calls = <<>>
    /\ receive_calls = 0
    /\ handler_calls = 0
    /\ handler_state = "idle"
    /\ handler_exc = NoExc
    /\ token_fetches = 0
    /\ upstream_gets = 0
    /\ auth_reply = 0
    /\ movies_reply = 0
    /\ fallback_calls = 0
    /\ fallback_inbox = <<>>
    /\ fallback_seen = <<>>
    /\ get_authorization = <<>>
    /\ auth0_token_cache = InitialCache
    /\ request_no = 1
    /\ first_run = NoRun
    /\ peer_pc = "absent"

\* the initial states with the few requests, as POST / and as GET /
InitFew ==
    /\ Init
    /\ scope \in {Scopes[1], Scopes[2]}
    /\ \E b \in FewBodies : wire \in Deliveries(b)

reqVars == <<scope, wire>>
parseVars == <<body, jsonrpc_req, tool_name, arguments, request_id>>
handlerVars == <<query, access_token, handler_calls, handler_state, handler_exc,
                 token_fetches, upstream_gets, auth_reply, movies_reply,
                 get_authorization, auth0_token_cache>>
procVars == <<request_no, first_run, peer_pc>>
sendVars == <<sent, send_calls>>
fallbackVars == <<fallback_calls, fallback_inbox, fallback_seen>>

\* what receive() returns next: the next event of the stream, and
\* http.disconnect once the stream is used up
NextEvent == IF Len(inbox) > 0 THEN Head(inbox) ELSE Disconnect

\* IsRootPost without the path test
IsRootPost_any_path(sc) == sc.type = "http" /\ sc.method = "POST"
\* line 105: a POST to "/" is inspected, anything else goes to the fallback
IsRootPost(sc) == sc.type = "http" /\ sc.method = "POST" /\ sc.path = "/"

Enter ==
    /\ pc = "called"
    /\ pc' = IF IsRootPost(scope) THEN "receive" ELSE "fallback"
    /\ UNCHANGED <<reqVars, procVars, inbox, body_parts, parseVars, handlerVars, result,
                   exc, response_body, sendVars, receive_calls, fallbackVars>>

\* lines 108-113: one iteration of the receive loop
\* (receive calls are counted up to MaxReceive; the loop itself goes on)
Receive ==
    /\ pc = "receive"
    /\ receive_calls' = IF receive_calls < MaxReceive THEN receive_calls + 1
                                                       ELSE receive_calls
    /\ inbox' = IF Len(inbox) > 0 THEN Tail(inbox) ELSE inbox
    /\ IF NextEvent.type = "http.request"
       THEN /\ body_parts' = Append(body_parts, MsgBody(NextEvent))
            /\ pc' = IF ~MsgMore(NextEvent) THEN "parse" ELSE "receive"
       ELSE UNCHANGED <<body_parts, pc>>
    /\ UNCHANGED <<reqVars, procVars, parseVars, handlerVars, result, exc, response_body,
                   sendVars, fallbackVars>>

\* line 121: the request is a JSON-RPC tools/call
RouteMatches(req) ==
    /\ PyEq(DictGet(req, k_jsonrpc, PyNone), PyStr(s_2_0))
    /\ PyEq(DictGet(req, k_method, PyNone), PyStr(s_tools_call))

\* lines 115-124, 172-173: join, decode, match the route, take the request
\* apart.  JSONDecodeError is the only exception caught here.
ParseAndRoute ==
    /\ pc = "parse"
    /\ LET b == JoinBytes(body_parts)
           r == json_loads(b)
           req == r.val
           params == DictGet(req, k_params, EmptyDict)
       IN /\ body' = b
          /\ IF r.exc = "JSONDecodeError"
             THEN /\ pc' = "fallback"
                  /\ UNCHANGED <<jsonrpc_req, tool_name, arguments, request_id, exc>>
             ELSE IF r.exc = "UnicodeDecodeError"
             THEN /\ pc' = "raised"
                  /\ exc' = Exc("UnicodeDecodeError", <<>>)
                  /\ UNCHANGED <<jsonrpc_req, tool_name, arguments, request_id>>
             ELSE IF req.t # "dict"
             THEN /\ pc' = "raised"
                  /\ exc' = AttributeError(req)
                  /\ jsonrpc_req' = req
                  /\ UNCHANGED <<tool_name, arguments, request_id>>
             ELSE IF ~RouteMatches(req)
             THEN /\ pc' = "fallback"
                  /\ jsonrpc_req' = req
                  /\ UNCHANGED <<tool_name, arguments, request_id, exc>>
             ELSE IF params.t # "dict"
             THEN /\ pc' = "raised"
                  /\ exc' = AttributeError(params)
                  /\ jsonrpc_req' = req
                  /\ UNCHANGED <<tool_name, arguments, request_id>>
             ELSE /\ pc' = "call_tool"
                  /\ jsonrpc_req' = req
                  /\ tool_name' = DictGet(params, k_name, PyNone)
                  /\ arguments' = DictGet(params, k_arguments, EmptyDict)
                  /\ request_id' = DictGet(req, k_id, PyNone)
                  /\ UNCHANGED exc
    /\ UNCHANGED <<reqVars, procVars, inbox, body_parts, handlerVars, result,
                   response_body, sendVars, receive_calls, fallbackVars>>

\* line 128: the one registered tool
IsSearchMovies(name) == PyEq(name, PyStr(s_search_movies))

\* lines 126-139 and 151-160: resolve the tool; call _search_movies_impl, or
\* answer "Unknown tool"; arguments.get on a non-dict lands in the except block
CallTool ==
    /\ pc = "call_tool"
    /\ IF IsSearchMovies(tool_name)
       THEN IF arguments.t # "dict"
            THEN /\ exc' = AttributeError(arguments)
                 /\ response_body' = json_dumps(ErrorResponse(request_id, exc'))
                 /\ pc' = "err_send_start"
                 /\ UNCHANGED <<query, handler_calls, handler_state, result>>
            ELSE /\ query' = DictGet(arguments, k_query, PyStr(<<>>))
                 /\ handler_calls' = handler_calls + 1
                 /\ handler_state' = "running"
                 /\ pc' = "get_token"
                 /\ UNCHANGED <<exc, response_body, result>>
       ELSE /\ result' = UnknownToolResult(tool_name)
            /\ response_body' = json_dumps(SuccessResponse(request_id, result'))
            /\ pc' = "send_start"
            /\ UNCHANGED <<query, handler_calls, handler_state, exc>>
    /\ UNCHANGED <<reqVars, procVars, inbox, body_parts, parseVars, access_token,
                   handler_exc, token_fetches, upstream_gets, auth_reply,
                   movies_reply, get_authorization, auth0_token_cache,
                   sendVars, receive_calls, fallbackVars>>

\* cache_after_fetch storing the token it got
cache_after_fetch_store(cache, token) == [cache EXCEPT !.token = token]
\* lines 28-29: the token just fetched is returned and the cache is left as
\* it is ("we'll just get a new token each time")
cache_after_fetch(cache, token) == cache

\* BearerHeader taking the token from the module-level cache
BearerHeader_from_cache(token) ==
    <<"B","e","a","r","e","r"," ">> \o py_str(auth0_token_cache.token)
\* lines 57-59: "Authorization": f"Bearer {access_token}"
BearerHeader(token) == <<"B","e","a","r","e","r"," ">> \o py_str(token)

\* line 55 with lines 24-44, and lines 84-89, 151-160 when it raises: the
\* token exchange of this call
GetToken ==
    /\ pc = "get_token"
    /\ \E i \in 1..Len(AuthReplies) :
          LET r == get_auth0_token(AuthReplies[i]) IN
          /\ auth_reply' = i
          /\ token_fetches' = token_fetches + 1
          /\ IF r.exc.type = "none"
             THEN /\ access_token' = r.val
                  /\ auth0_token_cache' = cache_after_fetch(auth0_token_cache, r.val)
                  /\ pc' = "get_movies"
                  /\ UNCHANGED <<handler_state, handler_exc, exc, response_body>>
             ELSE /\ handler_exc' = handler_reraise(r.exc)
                  /\ handler_state' = "raised"
                  /\ exc' = handler_exc'
                  /\ response_body' = json_dumps(ErrorResponse(request_id, exc'))
                  /\ pc' = "err_send_start"
                  /\ UNCHANGED <<access_token, auth0_token_cache>>
    /\ UNCHANGED <<reqVars, procVars, inbox, body_parts, parseVars, query,
                   handler_calls, upstream_gets, movies_reply, get_authorization,
                   result, sendVars, receive_calls, fallbackVars>>

\* lines 57-89, then 134-139 or 151-160: the collection GET, the search and
\* the response built from its outcome
GetMovies ==
    /\ pc = "get_movies"
    /\ \E i \in 1..Len(MoviesReplies) :
          LET r == search_after_token(query, MoviesReplies[i]) IN
          /\ movies_reply' = i
          /\ upstream_gets' = upstream_gets + 1
          /\ get_authorization' = BearerHeader(access_token)
          /\ IF r.exc.type = "none"
             THEN /\ result' = r.val
                  /\ handler_state' = "returned"
                  /\ response_body' = json_dumps(SuccessResponse(request_id, result'))
                  /\ pc' = "send_start"
                  /\ UNCHANGED <<handler_exc, exc>>
             ELSE /\ handler_exc' = r.exc
                  /\ handler_state' = "raised"
                  /\ exc' = handler_exc'
                  /\ response_body' = json_dumps(ErrorResponse(request_id, exc'))
                  /\ pc' = "err_send_start"
                  /\ UNCHANGED result
    /\ UNCHANGED <<reqVars, procVars, inbox, body_parts, parseVars, query,
                   access_token, handler_calls, token_fetches, auth_reply,
                   auth0_token_cache, sendVars, receive_calls, fallbackVars>>

\* await send(message) inside the try block (lines 141-149): the message is
\* accepted, or send raises and the except block of line 151 takes over
TrySend(message, next_pc) ==
    /\ send_calls' = Append(send_calls, message)
    /\ \/ /\ sent' = Append(sent, message)
          /\ pc' = next_pc
          /\ UNCHANGED <<exc, response_body>>
       \/ /\ exc' = SendFailure
          /\ response_body' = json_dumps(ErrorResponse(request_id, exc'))
          /\ pc' = "err_send_start"
          /\ UNCHANGED sent
    /\ UNCHANGED <<reqVars, procVars, inbox, body_parts, parseVars, handlerVars, result,
                   receive_calls, fallbackVars>>

\* await send(message) inside the except block (lines 162-170): the message
\* is accepted, or send raises and the exception leaves json_rpc_asgi_app
ExceptSend(message, next_pc) ==
    /\ send_calls' = Append(send_calls, message)
    /\ \/ /\ sent' = Append(sent, message)
          /\ pc' = next_pc
          /\ UNCHANGED exc
       \/ /\ exc' = SendFailure
          /\ pc' = "raised"
          /\ UNCHANGED sent
    /\ UNCHANGED <<reqVars, procVars, inbox, body_parts, parseVars, handlerVars, result,
                   response_body, receive_calls, fallbackVars>>

\* AfterResponse without the return: control falls through to line 176
AfterResponse_fall_through == "fallback"
\* line 150: return once the response is written
AfterResponse == "returned"

\* lines 141-145
SendStart == pc = "send_start" /\ TrySend(ResponseStart, "send_body")
\* lines 146-150
SendBody ==
    pc = "send_body" /\ TrySend(ResponseBody(response_body), AfterResponse)
\* lines 162-166
ErrSendStart ==
    pc = "err_send_start" /\ ExceptSend(ErrResponseStart, "err_send_body")
\* lines 167-171
ErrSendBody ==
    pc = "err_send_body" /\ ExceptSend(ResponseBody(response_body), "returned")

\* line 176: hand scope, receive and send to the fallback application
CallFallback ==
    /\ pc = "fallback"
    /\ fallback_calls' = fallback_calls + 1
    /\ fallback_inbox' = inbox
    /\ pc' = "in_fallback"
    /\ UNCHANGED <<reqVars, procVars, inbox, body_parts, parseVars, handlerVars, result,
                   exc, response_body, sendVars, receive_calls, fallback_seen>>

\* the fallback application reads the request from the receive it was given,
\* up to the last chunk or the disconnect
FallbackReceive ==
    /\ pc = "in_fallback"
    /\ inbox' = IF Len(inbox) > 0 THEN Tail(inbox) ELSE inbox
    /\ IF NextEvent.type = "http.request"
       THEN /\ fallback_seen' = Append(fallback_seen, NextEvent)
            /\ pc' = IF ~MsgMore(NextEvent) THEN "returned" ELSE "in_fallback"
       ELSE /\ pc' = "returned"
            /\ UNCHANGED fallback_seen
    /\ UNCHANGED <<reqVars, procVars, body_parts, parseVars, handlerVars, result, exc,
                   response_body, sendVars, receive_calls, fallback_calls,
                   fallback_inbox>>

\* the fallback application answers without reading further
FallbackReturn ==
    /\ pc = "in_fallback"
    /\ pc' = "returned"
    /\ UNCHANGED <<reqVars, procVars, inbox, body_parts, parseVars, handlerVars, result,
                   exc, response_body, sendVars, receive_calls, fallbackVars>>

Next ==
    \/ Enter
    \/ Receive
    \/ ParseAndRoute
    \/ CallTool
    \/ GetToken
    \/ GetMovies
    \/ SendStart
    \/ SendBody
    \/ ErrSendStart
    \/ ErrSendBody
    \/ CallFallback
    \/ FallbackReceive
    \/ FallbackReturn

Spec == Init /\ [][Next]_vars

\* the server starts the coroutine of a request, and the event loop resumes
\* it whenever the receive it awaits has an event to return
FairSpec == InitFew /\ [][Next]_vars /\ WF_vars(Enter) /\ WF_vars(Receive)

\* ---------------------------------------------------------------------------
\* The server process: the same request served again, and a second request in
\* flight on the same event loop
\* ---------------------------------------------------------------------------
\* calls of json_rpc_asgi_app followed in one process
MaxRequests == 2

\* line 180: uvicorn calls json_rpc_asgi_app again, for an identical request,
\* after the previous call is over; only module-level state carries over
RepeatRequest ==
    /\ pc \in {"returned", "raised"}
    /\ request_no < MaxRequests
    /\ request_no' = request_no + 1
    /\ first_run' = IF first_run.recorded THEN first_run
                    ELSE [recorded |-> TRUE, auth_reply |-> auth_reply,
                          movies_reply |-> movies_reply,
                          clean |-> (send_calls = sent), pc |-> pc, sent |-> sent]
    /\ inbox' = wire
    /\ pc' = "called"
    /\ body_parts' = <<>>
    /\ body' = <<>>
    /\ jsonrpc_req' = PyNone
    /\ tool_name' = PyNone
    /\ arguments' = PyNone
    /\ request_id' = PyNone
    /\ query' = PyNone
    /\ access_token' = PyNone
    /\ result' = PyNone
    /\ exc' = NoExc
    /\ response_body' = <<>>
    /\ sent' = <<>>
    /\ send_calls' = <<>>
    /\ receive_calls' = 0
    /\ handler_calls' = 0
    /\ handler_state' = "idle"
    /\ handler_exc' = NoExc
    /\ token_fetches' = 0
    /\ upstream_gets' = 0
    /\ auth_reply' = 0
    /\ movies_reply' = 0
    /\ fallback_calls' = 0
    /\ fallback_inbox' = <<>>
    /\ fallback_seen' = <<>>
    /\ get_authorization' = <<>>
    /\ UNCHANGED <<scope, wire, auth0_token_cache, peer_pc>>

NextProcess == Next \/ RepeatRequest

\* one process serving the same request MaxRequests times
ProcessSpec == InitFew /\ [][NextProcess]_vars

\* The event loop has one thread.  A coroutine gives it up only at an await
\* (receive, send, fastmcp_asgi); from the return of the last receive to the
\* first send (lines 115-139) there is none, and requests.post (line 39) and
\* requests.get (line 62) block the thread until the reply is in.
LoopFree == pc \notin {"parse", "call_tool", "get_token", "get_movies"}

\* the server accepts a second request and starts its call of
\* json_rpc_asgi_app, which awaits receive
PeerArrives ==
    /\ peer_pc = "absent"
    /\ LoopFree
    /\ peer_pc' = "receive"
    /\ UNCHANGED <<reqVars, request_no, first_run, inbox, pc, body_parts,
                   parseVars, handlerVars, result, exc, response_body, sendVars,
                   receive_calls, fallbackVars>>

\* the second request runs from the return of its receive to its first send
\* (lines 109-141): read, parsed, dispatched, its tool run
PeerHandle ==
    /\ peer_pc = "receive"
    /\ LoopFree
    /\ peer_pc' = "send"
    /\ UNCHANGED <<reqVars, request_no, first_run, inbox, pc, body_parts,
                   parseVars, handlerVars, result, exc, response_body, sendVars,
                   receive_calls, fallbackVars>>

\* the second request writes its response (lines 141-150)
PeerAnswer ==
    /\ peer_pc = "send"
    /\ LoopFree
    /\ peer_pc' = "returned"
    /\ UNCHANGED <<reqVars, request_no, first_run, inbox, pc, body_parts,
                   parseVars, handlerVars, result, exc, response_body, sendVars,
                   receive_calls, fallbackVars>>

PeerNext == PeerArrives \/ PeerHandle \/ PeerAnswer

NextConcurrent == Next \/ PeerArrives \/ PeerHandle \/ PeerAnswer

\* one process with two requests in flight
ConcurrentSpec == InitFew /\ [][NextConcurrent]_vars

\* every variable keeps to its shape
TypeOK ==
    /\ pc \in {"called", "receive", "parse", "call_tool", "get_token",
               "get_movies", "send_start", "send_body", "err_send_start",
               "err_send_body", "fallback", "in_fallback", "returned", "raised"}
    /\ receive_calls \in 0..MaxReceive
    /\ handler_calls \in 0..1
    /\ handler_state \in {"idle", "running", "returned", "raised"}
    /\ fallback_calls \in 0..1
    /\ token_fetches \in 0..1
    /\ upstream_gets \in 0..1
    /\ request_no \in 1..MaxRequests
    /\ first_run.recorded \in BOOLEAN
    /\ peer_pc \in {"absent", "receive", "send", "returned"}

\* ---------------------------------------------------------------------------
\* The request as the client put it on the wire, and the messages the wrapper
\* emitted, read back as a client reads them
\* ---------------------------------------------------------------------------
WireBody == JoinBytes([i \in 1..Len(wire) |-> MsgBody(wire[i])])
WireComplete == Len(wire) > 0 /\ ~MsgMore(wire[Len(wire)])
RequestDoc == json_loads(WireBody)
RootPostRequest ==
    scope.type = "http" /\ scope.method = "POST" /\ scope.path = "/"
Field(d, k) == IF HasKey(d, k) THEN GetItem(d, k) ELSE PyNone
IsStr(x, chars) == x.t = "str" /\ x.v = chars
IsToolsCall ==
    /\ RequestDoc.exc = "none"
    /\ RequestDoc.val.t = "dict"
    /\ IsStr(Field(RequestDoc.val, k_jsonrpc), s_2_0)
    /\ IsStr(Field(RequestDoc.val, k_method), s_tools_call)
ClaimedRequest == RootPostRequest /\ WireComplete /\ IsToolsCall
RequestIdOnWire == Field(RequestDoc.val, k_id)
RequestParams == Field(RequestDoc.val, k_params)
Finished == pc \in {"returned", "raised"}

BodyIndexes(msgs) ==
    {i \in 1..Len(msgs) : msgs[i].type = "http.response.body"}
StartIndexes(msgs) ==
    {i \in 1..Len(msgs) : msgs[i].type = "http.response.start"}
Envelope(message) == json_loads(message.body)
IsEnvelope(e) ==
    /\ e.exc = "none"
    /\ e.val.t = "dict"
    /\ IsStr(Field(e.val, k_jsonrpc), s_2_0)
IsResultEnvelope(e) ==
    IsEnvelope(e) /\ HasKey(e.val, k_result) /\ ~HasKey(e.val, k_error)
IsErrorEnvelope(e) ==
    /\ IsEnvelope(e) /\ HasKey(e.val, k_error) /\ ~HasKey(e.val, k_result)
    /\ GetItem(e.val, k_error).t = "dict"
ErrorCodeIs(e, digits) ==
    LET c == Field(GetItem(e.val, k_error), k_code) IN c.t = "int" /\ c.v = digits
ErrorMessageIs(e, chars) ==
    IsStr(Field(GetItem(e.val, k_error), k_message), chars)

\* ---------------------------------------------------------------------------
\* Claims
\* ---------------------------------------------------------------------------

\* C1: for a claimed request, every envelope the wrapper emits, result or
\* error, carries an "id" equal to the "id" of the request, and null when the
\* request has none.
C1_IdEchoed ==
    ClaimedRequest =>
        \A i \in BodyIndexes(send_calls) :
            LET e == Envelope(send_calls[i]) IN
            /\ IsEnvelope(e)
            /\ HasKey(e.val, k_id)
            /\ PyEq(GetItem(e.val, k_id), RequestIdOnWire)
            /\ (~HasKey(RequestDoc.val, k_id) => GetItem(e.val, k_id).t = "none")

\* an error envelope went out for a request whose id is the string "a"
C1_Witness ==
    /\ ClaimedRequest
    /\ pc = "returned"
    /\ IsStr(RequestIdOnWire, <<"a">>)
    /\ \E i \in BodyIndexes(sent) : IsErrorEnvelope(Envelope(sent[i]))

\* C7: every http.response.start the wrapper sends has status 200 and the one
\* header content-type: application/json, for result and error envelopes alike.
C7_AlwaysHttp200 ==
    \A i \in StartIndexes(send_calls) :
        /\ send_calls[i].status = 200
        /\ send_calls[i].headers = << <<"content-type", "application/json">> >>

\* the tool raised and its error envelope went out behind a status 200
C7_Witness ==
    /\ pc = "returned"
    /\ handler_state = "raised"
    /\ Len(sent) = 2
    /\ sent[1].type = "http.response.start" /\ sent[1].status = 200
    /\ sent[2].type = "http.response.body" /\ IsErrorEnvelope(Envelope(sent[2]))

\* C8: a request that is not a POST to "/" is never read, parsed or
\* dispatched by the wrapper: receive is not called, no tool or token fetch
\* runs, nothing is sent, and fastmcp_asgi gets the stream unread.
C8_PassThroughUnread ==
    ~RootPostRequest =>
        /\ receive_calls = 0
        /\ body_parts = <<>> /\ body = <<>> /\ jsonrpc_req.t = "none"
        /\ handler_calls = 0 /\ token_fetches = 0 /\ upstream_gets = 0
        /\ send_calls = <<>>
        /\ pc # "raised"
        /\ (pc \in {"in_fallback", "returned"} => fallback_calls = 1)
        /\ (fallback_calls = 1 => fallback_inbox = wire)

\* a GET / whose two-chunk body the fallback read in full
C8_Witness ==
    /\ scope.type = "http" /\ scope.method = "GET" /\ scope.path = "/"
    /\ pc = "returned"
    /\ Len(wire) = 2
    /\ fallback_seen = wire

\* C2: for a claimed request that names search_movies, an emitted envelope
\* has exactly one of result and error: the returned value as result when
\* _search_movies_impl returned, and error {code -32603, message str(failure)}
\* when it raised.
C2_ResultXorError ==
    (ClaimedRequest /\ handler_calls = 1) =>
        \A i \in BodyIndexes(sent) :
            LET e == Envelope(sent[i]) IN
            /\ IsResultEnvelope(e) \/ IsErrorEnvelope(e)
            /\ handler_state = "returned" =>
                  /\ IsResultEnvelope(e)
                  /\ PyEq(GetItem(e.val, k_result), result)
            /\ handler_state = "raised" =>
                  /\ IsErrorEnvelope(e)
                  /\ ErrorCodeIs(e, <<"-","3","2","6","0","3">>)
                  /\ ErrorMessageIs(e, handler_exc.msg)

\* C3: tool resolution is exact: a claimed request named exactly
\* "search_movies" calls _search_movies_impl once; any other name calls no
\* handler, fetches no token, makes no upstream call, and is answered by the
\* success envelope {"error": "Unknown tool: <name>"} without an error field.
C3_ExactToolResolution ==
    (ClaimedRequest /\ Finished) =>
        IF RequestParams.t = "dict"
           /\ IsStr(Field(RequestParams, k_name), s_search_movies)
        THEN handler_calls = 1
        ELSE /\ handler_calls = 0 /\ token_fetches = 0 /\ upstream_gets = 0
             /\ pc = "returned"
             /\ Len(sent) = 2
             /\ sent[2].type = "http.response.body"
             /\ IsResultEnvelope(Envelope(sent[2]))
             /\ LET r == GetItem(Envelope(sent[2]).val, k_result) IN
                /\ r.t = "dict"
                /\ Len(r.v) = 1
                /\ IsStr(Field(r, k_error),
                         s_Unknown_tool
                           \o (IF RequestParams.t = "dict"
                               THEN py_str(Field(RequestParams, k_name))
                               ELSE s_None))

\* C4: a POST / whose body does not decode as JSON gets no response message
\* from the wrapper and is handed to fastmcp_asgi exactly once.
C4_NonJsonForwarded ==
    (RootPostRequest /\ WireComplete /\ RequestDoc.exc # "none") =>
        /\ send_calls = <<>>
        /\ handler_calls = 0
        /\ fallback_calls <= 1
        /\ Finished => fallback_calls = 1

\* C5: a POST / whose body is JSON of any type but not a tools/call envelope
\* calls no tool, emits no response, and is forwarded to fastmcp_asgi.
C5_OtherJsonForwarded ==
    (RootPostRequest /\ WireComplete /\ RequestDoc.exc = "none" /\ ~IsToolsCall) =>
        /\ send_calls = <<>>
        /\ handler_calls = 0
        /\ Finished => fallback_calls = 1

\* C6: for a claimed request the wrapper emits exactly one HTTP response on
\* every path: at most one http.response.start, followed by exactly one
\* http.response.body.
C6_ExactlyOneResponse ==
    ClaimedRequest =>
        /\ Cardinality(StartIndexes(sent)) <= 1
        /\ Cardinality(BodyIndexes(sent)) <= 1
        /\ BodyIndexes(sent) # {} => sent[1].type = "http.response.start"
        /\ pc = "returned" => Len(sent) = 2

\* C9: when a POST / is forwarded after its body was collected, fastmcp_asgi
\* reads from its receive the same http.request chunks the transport delivered.
C9_FallbackSeesSameChunks ==
    (RootPostRequest /\ WireComplete /\ fallback_calls = 1) =>
        fallback_inbox = wire

\* the identity provider's reply is a failed token exchange: no connection,
\* a 4xx/5xx status, or a body without access_token
TokenExchangeFailed ==
    /\ auth_reply # 0
    /\ \/ ~AuthReplies[auth_reply].conn_ok
       \/ AuthReplies[auth_reply].status >= 400
       \/ ~HasKey(AuthReplies[auth_reply].json, k_access_token)

\* C10: when the token exchange fails, the search_movies call is answered by
\* an error envelope with code -32603 whose message is the authentication
\* failure, behind HTTP status 200.
C10_AuthFailureReported ==
    (ClaimedRequest /\ TokenExchangeFailed) =>
        /\ upstream_gets = 0
        /\ \A i \in StartIndexes(sent) : sent[i].status = 200
        /\ \A i \in BodyIndexes(sent) :
              LET e == Envelope(sent[i]) IN
              /\ IsErrorEnvelope(e)
              /\ ErrorCodeIs(e, <<"-","3","2","6","0","3">>)
              /\ ErrorMessageIs(e, s_auth_failed)

\* ---------------------------------------------------------------------------
\* Reference search result: the contract of the search, written without the
\* operators of the model
\* ---------------------------------------------------------------------------
RefLowerChar(c) ==
    CASE c = "A" -> "a" [] c = "B" -> "b" [] c = "C" -> "c" [] c = "D" -> "d"
      [] c = "E" -> "e" [] c = "F" -> "f" [] c = "G" -> "g" [] c = "H" -> "h"
      [] c = "I" -> "i" [] c = "J" -> "j" [] c = "K" -> "k" [] c = "L" -> "l"
      [] c = "M" -> "m" [] c = "N" -> "n" [] c = "O" -> "o" [] c = "P" -> "p"
      [] c = "Q" -> "q" [] c = "R" -> "r" [] c = "S" -> "s" [] c = "T" -> "t"
      [] c = "U" -> "u" [] c = "V" -> "v" [] c = "W" -> "w" [] c = "X" -> "x"
      [] c = "Y" -> "y" [] c = "Z" -> "z" [] OTHER -> c

RECURSIVE RefStartsWith(_, _)
\* s begins with prefix, ignoring case
RefStartsWith(s, prefix) ==
    IF Len(prefix) = 0 THEN TRUE
    ELSE IF Len(s) = 0 THEN FALSE
         ELSE /\ RefLowerChar(Head(s)) = RefLowerChar(Head(prefix))
              /\ RefStartsWith(Tail(s), Tail(prefix))

RECURSIVE RefOccursIn(_, _)
\* sub occurs in s, ignoring case
RefOccursIn(sub, s) ==
    \/ RefStartsWith(s, sub)
    \/ Len(s) > 0 /\ RefOccursIn(sub, Tail(s))

RefTitle(movie) == movie.v[CHOOSE i \in 1..Len(movie.v) : movie.v[i].k = k_title].val.v
RefWatched(movie) ==
    movie.v[CHOOSE i \in 1..Len(movie.v) : movie.v[i].k = k_watched].val.v = <<"true">>

RefSentence(movie) ==
    <<"'">> \o RefTitle(movie)
      \o <<"'"," ","i","s"," ","o","n"," ","t","h","e"," ","l","i","s","t"," ","a","n","d"," ">>
      \o (IF RefWatched(movie)
          THEN <<"h","a","s"," ","b","e","e","n"," ","w","a","t","c","h","e","d",".">>
          ELSE <<"h","a","s"," ","N","O","T"," ","b","e","e","n"," ",
                 "w","a","t","c","h","e","d",".">>)

RECURSIVE RefSentences(_, _, _)
\* the sentences of the matching records from position i on, in upstream
\* order, each after the first preceded by one space
RefSentences(query_chars, movies, i) ==
    IF i > Len(movies) THEN <<>>
    ELSE LET rest == RefSentences(query_chars, movies, i + 1) IN
         IF RefOccursIn(query_chars, RefTitle(movies[i]))
         THEN RefSentence(movies[i])
                \o (IF Len(rest) > 0 THEN <<" ">> \o rest ELSE <<>>)
         ELSE rest

RefResult(query_chars, movies) ==
    IF Len(RefSentences(query_chars, movies, 1)) = 0
    THEN <<"T","h","e"," ","m","o","v","i","e"," ","'">> \o query_chars
           \o <<"'"," ","w","a","s"," ","n","o","t"," ","f","o","u","n","d"," ",
                "i","n"," ","t","h","e"," ","w","i","s","h","l","i","s","t",".">>
    ELSE RefSentences(query_chars, movies, 1)

\* the upstream reply of this call is a collection of {title, watched} records
WellFormedCollection ==
    /\ movies_reply # 0
    /\ MoviesReplies[movies_reply].conn_ok
    /\ MoviesReplies[movies_reply].status = 200
    /\ MoviesReplies[movies_reply].json.t = "list"
    /\ \A i \in 1..Len(MoviesReplies[movies_reply].json.v) :
          LET m == MoviesReplies[movies_reply].json.v[i] IN
          /\ m.t = "dict"
          /\ \E j \in 1..Len(m.v) : m.v[j].k = k_title /\ m.v[j].val.t = "str"
          /\ \E j \in 1..Len(m.v) : m.v[j].k = k_watched /\ m.v[j].val.t = "bool"

\* C11: for a query string and a collection of {title, watched} records,
\* _search_movies_impl returns the reference result: the sentences of the
\* records whose title contains the query ignoring case, in upstream order,
\* joined by one space, or the not-found sentence when none matches.
C11_SearchMatchesReference ==
    (query.t = "str" /\ WellFormedCollection) =>
        /\ handler_state = "returned"
        /\ result.t = "str"
        /\ result.v = RefResult(query.v, MoviesReplies[movies_reply].json.v)

\* the query "B" matched "Ab" and "b": two sentences, joined, in upstream order
C11_Witness ==
    /\ handler_state = "returned"
    /\ query.t = "str" /\ query.v = <<"B">>
    /\ movies_reply # 0
    /\ WellFormedCollection
    /\ Len(MoviesReplies[movies_reply].json.v) = 2
    /\ Len(result.v) > Len(RefSentence(MoviesReplies[movies_reply].json.v[1])) + 1

\* C12: the receive loop terminates for every sequence of events the
\* transport can deliver, also when http.disconnect arrives before a last
\* chunk: the wrapper eventually stops collecting the body.
C12_ReceiveLoopTerminates == <>(pc \notin {"called", "receive"})

RECURSIVE RefConcatBodies(_)
\* the bodies of a sequence of http.request events, one after the other; an
\* event without "body" adds nothing
RefConcatBodies(events) ==
    IF Len(events) = 0 THEN <<>>
    ELSE (IF "body" \in DOMAIN Head(events) THEN Head(events).body ELSE <<>>)
           \o RefConcatBodies(Tail(events))

\* receive has returned every event of the request, the last of them an
\* http.request that does not announce more
LastChunkReceived ==
    /\ Len(wire) > 0
    /\ inbox = <<>>
    /\ wire[Len(wire)].type = "http.request"
    /\ ("more_body" \in DOMAIN wire[Len(wire)] => ~wire[Len(wire)].more_body)

\* C13: the wrapper neither parses nor dispatches before it has received the
\* chunk with more_body false, what it parses is the concatenation of all chunk
\* bodies in arrival order, and no tool handler runs on a partial body.
C13_ParsesWholeBodyOnly ==
    RootPostRequest =>
        /\ pc \in {"called", "receive"} =>
              /\ body = <<>> /\ jsonrpc_req.t = "none"
              /\ handler_calls = 0 /\ send_calls = <<>> /\ fallback_calls = 0
        /\ pc \notin {"called", "receive"} => LastChunkReceived
        /\ pc \notin {"called", "receive", "parse"} => body = RefConcatBodies(wire)
        /\ handler_calls > 0 => body = RefConcatBodies(wire)

\* a search request delivered in two non-empty chunks reached its handler
C13_Witness ==
    /\ RootPostRequest
    /\ Len(wire) = 2
    /\ Len(MsgBody(wire[1])) > 0 /\ Len(MsgBody(wire[2])) > 0
    /\ handler_calls = 1
    /\ body = MsgBody(wire[1]) \o MsgBody(wire[2])

\* C17: a POST / tools/call request ends in a JSON-RPC response or in a
\* forward to the fallback, whatever the shape of its params; it never ends in
\* an unhandled exception with neither.
C17_NoUnhandledException ==
    ClaimedRequest => ~(pc = "raised" /\ send_calls = <<>> /\ fallback_calls = 0)

\* C18: the wrapper never both sends a response message itself and calls
\* fastmcp_asgi for the same request, and it calls fastmcp_asgi at most once.
C18_ClaimXorForward ==
    /\ fallback_calls <= 1
    /\ ~(Len(send_calls) > 0 /\ fallback_calls > 0)

\* the wrapper answered a request itself and returned without the fallback
C18_Witness ==
    /\ pc = "returned"
    /\ Len(sent) = 2
    /\ sent[2].type = "http.response.body"
    /\ fallback_calls = 0

\* C14: requests are handled independently: while the tool handler of one
\* request waits for its token fetch or its upstream search, the other request
\* in flight can still be read, dispatched and answered.
C14_PeerProgressesWhileHandlerWaits ==
    (pc \in {"get_token", "get_movies"} /\ peer_pc \in {"receive", "send"})
        => ENABLED PeerNext

====
